---- MODULE Spec2Model ----
(***************************************************************************)
(* A model of gphotos_meta: the filename matcher and corpus scanner        *)
(* (scanner.py), the sidecar parser and tag writer/verifier (metadata.py)  *)
(* and the batch commands attach and cleanup (cli.py).                     *)
(*                                                                         *)
(* File names are TLA+ strings over ASCII; a path is a record              *)
(* [parent, name].                                                         *)
(***************************************************************************)
EXTENDS Integers, Sequences, FiniteSets, TLC

VARIABLES
    dirKind,    \* what the target path is: "dir", "missing" or "notdir"
    listing,    \* the directory tree's entries, in the order the OS lists them
    recursive,  \* the --recursive flag of the scan
    result,     \* <<the ScanResult of the scan_directory call>>, <<>> before it
    nameIn,     \* the argument of the last filename-matcher call
    nameOut,    \* what get_media_filename_from_json returned for nameIn
    docs,       \* the content of each sidecar file
    tags,       \* the tags the engine reports for each media file
    keeps,      \* the field groups each media file's format keeps on a write
    call,       \* the arguments of the process_file call under study
    ret,        \* <<what that call returned>>, <<>> before it
    cmd,        \* the parsed command line of the run of main
    pc,         \* where the run is: "idle", in one of the three loops, "done"
    idx,        \* the 1-based index of the pair the loop handles next
    stats,      \* the ProcessingStats of cmd_attach
    counts,     \* deleted, failed and skipped of cmd_cleanup
    session,    \* the MetadataProcessor's engine session: "none", "open", "closed"
    exitCode,   \* <<what main returned>>, <<>> while it runs
    raised,     \* the exception that ended the run, "" when there is none
    unlinked,   \* the paths the run called unlink() on with success
    checked,    \* the sidecars the run parsed and verified on every file of the pair
    opened,     \* how many times the run opened an engine session
    engineCalls,\* the engine calls of the run: [op, path, open], open the session's state
    history     \* what each earlier run on the directory left: tags, listing, result

scanVars == <<dirKind, listing, recursive, result>>
nameVars == <<nameIn, nameOut>>
envVars == <<docs, tags, keeps>>
callVars == <<call, ret>>
runVars == <<cmd, pc, idx, stats, counts, session, exitCode, raised, unlinked, checked, opened, engineCalls, history>>
vars == <<scanVars, nameVars, envVars, callVars, runVars>>

(***************************************************************************)
(* Bounds of the model.                                                    *)
(***************************************************************************)
MaxFiles == 3      \* entries a scanned tree holds at most
MaxParts == 2      \* pieces a generated media name is built from at most

None == "<None>"   \* Python's None
NoResult == "<no result>"

(***************************************************************************)
(* Strings.                                                                *)
(***************************************************************************)
CharAt(s, i) == SubSeq(s, i, i)

\* str.lower() on the ASCII letters the model's names use.
LowerChar(c) ==
    CASE c = "A" -> "a" [] c = "B" -> "b" [] c = "D" -> "d" [] c = "E" -> "e"
      [] c = "G" -> "g" [] c = "J" -> "j" [] c = "L" -> "l" [] c = "M" -> "m"
      [] c = "N" -> "n" [] c = "O" -> "o" [] c = "P" -> "p" [] c = "S" -> "s"
      [] c = "T" -> "t" [] c = "U" -> "u" [] c = "X" -> "x"
      [] OTHER -> c

RECURSIVE Lower(_)
Lower(s) ==
    IF Len(s) = 0 THEN ""
    ELSE LowerChar(CharAt(s, 1)) \o Lower(SubSeq(s, 2, Len(s)))

EndsWith(s, suf) ==
    /\ Len(s) >= Len(suf)
    /\ SubSeq(s, Len(s) - Len(suf) + 1, Len(s)) = suf

\* str.rfind("."): the 0-based index of the last dot, -1 when there is none.
RECURSIVE RFindDotFrom(_, _)
RFindDotFrom(s, i) ==
    IF i = 0 THEN -1
    ELSE IF CharAt(s, i) = "." THEN i - 1
    ELSE RFindDotFrom(s, i - 1)

RFindDot(s) == RFindDotFrom(s, Len(s))

(***************************************************************************)
(* scanner.py: the filename matcher.                                       *)
(***************************************************************************)
\* The literal suffix each regular expression of JSON_PATTERNS anchors at the
\* end of the name, in the table's order.
JSON_PATTERNS ==
    << ".supplemental-metadata.json",
       ".supplemental-metada.json",
       ".supplemental-met.json",
       ".su.json" >>

MEDIA_EXTENSIONS ==
    { ".jpg", ".jpeg", ".png", ".gif", ".webp", ".heic", ".heif", ".bmp",
      ".tiff", ".tif", ".mp4", ".mov", ".avi", ".mkv", ".webm", ".3gp", ".m4v" }

\* SKIP_FILES with the German album file name left out.
SKIP_FILES_english_only == { "metadata.json" }

SKIP_FILES == { "Metadaten.json", "metadata.json" }

\* PatternSearch for a pattern that lost its "$": the leftmost occurrence of
\* the suffix anywhere in the name.
PatternSearchUnanchored(suffix, name) ==
    LET k == Len(suffix)
        hits == { i \in 0..(Len(name) - k) : Lower(SubSeq(name, i + 1, i + k)) = suffix }
    IN  IF hits = {} THEN -1
        ELSE CHOOSE i \in hits : \A j \in hits : i <= j

\* re.search(pattern, name, re.IGNORECASE) for a pattern "<suffix>$": the
\* 0-based start of the match, or -1.  "$" matches at the end of the string
\* and also just before a newline that ends it.
PatternSearch(suffix, name) ==
    LET n == Len(name)
        k == Len(suffix)
    IN  IF n >= k /\ Lower(SubSeq(name, n - k + 1, n)) = suffix
        THEN n - k
        ELSE IF n >= k + 1 /\ Lower(SubSeq(name, n - k, n)) = suffix \o "\n"
        THEN n - k - 1
        ELSE -1

is_metadata_json(filename) ==
    IF filename \in SKIP_FILES THEN FALSE
    ELSE \E i \in 1..Len(JSON_PATTERNS) : PatternSearch(JSON_PATTERNS[i], filename) >= 0

RECURSIVE MediaNameFrom(_, _)
MediaNameFrom(json_filename, i) ==
    IF i > Len(JSON_PATTERNS) THEN None
    ELSE LET start == PatternSearch(JSON_PATTERNS[i], json_filename)
         IN  IF start >= 0 THEN SubSeq(json_filename, 1, start)
             ELSE MediaNameFrom(json_filename, i + 1)

get_media_filename_from_json(json_filename) == MediaNameFrom(json_filename, 1)

\* pathlib's PurePath.suffix of a file name.
PathSuffix(filename) ==
    LET i == RFindDot(filename)
    IN  IF 0 < i /\ i < Len(filename) - 1
        THEN SubSeq(filename, i + 1, Len(filename))
        ELSE ""

\* is_media_file without the .lower() of the extension.
is_media_file_case_sensitive(filename) == PathSuffix(filename) \in MEDIA_EXTENSIONS

is_media_file(filename) == Lower(PathSuffix(filename)) \in MEDIA_EXTENSIONS

(***************************************************************************)
(* scanner.py: the corpus scanner.                                         *)
(***************************************************************************)
Path(parent, name) == [parent |-> parent, name |-> name]

\* str(path)
PathStr(path) == path.parent \o "/" \o path.name

RootDir == "r"
SubDirName == "d.jpg"
SubDir == "r/d.jpg"

\* The tree's one subdirectory, as an entry of its parent: the only entry
\* that is not a regular file (Path.is_file() is false for it).
SubDirEntry == Path(RootDir, SubDirName)

is_file(entry) == entry # SubDirEntry

MediaFilePair(media_path, json_path) ==
    [media_path |-> media_path, json_path |-> json_path]

EmptyScanResult ==
    [pairs |-> <<>>, orphan_jsons |-> <<>>, orphan_media |-> <<>>,
     skipped_jsons |-> <<>>, errors |-> <<>>]

\* d[key] = value on a dict kept as a sequence of <<key, value>> in insertion
\* order: a key already present keeps its place and takes the new value.
DictSet(d, key, value) ==
    IF \E i \in 1..Len(d) : d[i][1] = key
    THEN [i \in 1..Len(d) |-> IF d[i][1] = key THEN <<key, value>> ELSE d[i]]
    ELSE Append(d, <<key, value>>)

\* directory.iterdir() or directory.rglob("*"), as a list.
Entries(tree, rec) ==
    IF rec THEN tree
    ELSE SelectSeq(tree, LAMBDA e : e.parent = RootDir)

\* The first loop of scan_directory, from entry i on.
RECURSIVE Classify(_, _, _)
Classify(entries, i, acc) ==
    IF i > Len(entries) THEN acc
    ELSE
      LET entry == entries[i]
          filename == entry.name
          media_name == get_media_filename_from_json(filename)
      IN  IF ~is_file(entry) THEN Classify(entries, i + 1, acc)
          ELSE IF filename \in SKIP_FILES
          THEN Classify(entries, i + 1,
                        [acc EXCEPT !.skipped_jsons = Append(@, entry)])
          ELSE IF is_metadata_json(filename)
          THEN IF media_name # None /\ media_name # ""
               THEN Classify(entries, i + 1,
                             [acc EXCEPT !.json_files =
                                 DictSet(@, Path(entry.parent, media_name), entry)])
               ELSE Classify(entries, i + 1, acc)
          ELSE IF is_media_file(filename)
          THEN Classify(entries, i + 1,
                        [acc EXCEPT !.media_files = @ \cup {entry}])
          ELSE Classify(entries, i + 1, acc)

Classified(entries) ==
    Classify(entries, 1,
             [json_files |-> <<>>, media_files |-> {}, skipped_jsons |-> <<>>])

\* The second loop: json_files.items() in insertion order.
RECURSIVE Match(_, _, _, _)
Match(json_files, media_files, i, acc) ==
    IF i > Len(json_files) THEN acc
    ELSE
      LET media_path == json_files[i][1]
          json_path == json_files[i][2]
      IN  IF media_path \in media_files
          THEN Match(json_files, media_files, i + 1,
                     [acc EXCEPT !.pairs = Append(@, MediaFilePair(media_path, json_path))])
          ELSE Match(json_files, media_files, i + 1,
                     [acc EXCEPT !.orphan_jsons = Append(@, json_path)])

\* The orders a Python set of paths may be iterated in.
SetOrders(S) ==
    { o \in [1..Cardinality(S) -> S] :
        \A i, j \in 1..Cardinality(S) : i # j => o[i] # o[j] }

\* scan_directory whose last loop does not leave out the matched media.
scan_directory_keeps_matched(kind, tree, rec, media_order) ==
    IF kind = "missing"
    THEN [EmptyScanResult EXCEPT !.errors = <<"Directory does not exist">>]
    ELSE IF kind = "notdir"
    THEN [EmptyScanResult EXCEPT !.errors = <<"Path is not a directory">>]
    ELSE
      LET c == Classified(Entries(tree, rec))
          matched == Match(c.json_files, c.media_files, 1,
                           [EmptyScanResult EXCEPT !.skipped_jsons = c.skipped_jsons])
      IN  [matched EXCEPT !.orphan_media = media_order]

\* scan_directory; media_order is the order the set media_files iterates in.
scan_directory(kind, tree, rec, media_order) ==
    IF kind = "missing"
    THEN [EmptyScanResult EXCEPT !.errors = <<"Directory does not exist">>]
    ELSE IF kind = "notdir"
    THEN [EmptyScanResult EXCEPT !.errors = <<"Path is not a directory">>]
    ELSE
      LET c == Classified(Entries(tree, rec))
          matched == Match(c.json_files, c.media_files, 1,
                           [EmptyScanResult EXCEPT !.skipped_jsons = c.skipped_jsons])
          matched_media == { matched.pairs[i].media_path : i \in 1..Len(matched.pairs) }
      IN  [matched EXCEPT !.orphan_media =
              SelectSeq(media_order, LAMBDA m : m \notin matched_media)]

MediaFilesOf(kind, tree, rec) ==
    IF kind = "dir" THEN Classified(Entries(tree, rec)).media_files ELSE {}

(***************************************************************************)
(* metadata.py: values.                                                    *)
(*                                                                         *)
(* A JSON value is a record [t, s, n]: t is its type, s its text when it   *)
(* is a string, n its value when it is a number.  Coordinates are counted  *)
(* in units of 0.00001 degree.  An optional Python value is a sequence of  *)
(* length 0 (None) or 1.                                                   *)
(***************************************************************************)
JAbsent == [t |-> "absent", s |-> "", n |-> 0]      \* the key is not there
JNull == [t |-> "null", s |-> "", n |-> 0]
JStr(s) == [t |-> "str", s |-> s, n |-> 0]
JNum(n) == [t |-> "num", s |-> "", n |-> n]
\* A number too large for the platform's time_t.
JHuge == [t |-> "huge", s |-> "", n |-> 0]

Some(v) == << v >>
Nothing == << >>

Digits == << "0", "1", "2", "3", "4", "5", "6", "7", "8", "9" >>

IsDigit(c) == \E d \in 1..10 : Digits[d] = c

DigitValue(c) == (CHOOSE d \in 1..10 : Digits[d] = c) - 1

IsDigitString(str) ==
    /\ Len(str) > 0
    /\ \A i \in 1..Len(str) : IsDigit(CharAt(str, i))

RECURSIVE StrToInt(_)
StrToInt(str) ==
    IF Len(str) = 0 THEN 0
    ELSE 10 * StrToInt(SubSeq(str, 1, Len(str) - 1)) + DigitValue(CharAt(str, Len(str)))

Pad2(n) == Digits[((n \div 10) % 10) + 1] \o Digits[(n % 10) + 1]

Pad4(n) == Pad2(n \div 100) \o Pad2(n % 100)

\* datetime.fromtimestamp(ts, tz=utc).strftime("%Y:%m:%d %H:%M:%S"), ts >= 0.
\* The days since 0000-03-01 are split into the 400-year era, the day and
\* year of the era, the day of the year and the month counted from March.
StrftimeFields(y, m, d, secs) ==
    Pad4(y) \o ":" \o Pad2(m) \o ":" \o Pad2(d) \o " "
    \o Pad2(secs \div 3600) \o ":" \o Pad2((secs % 3600) \div 60) \o ":"
    \o Pad2(secs % 60)

StrftimeMonth(era, yoe, doy, mp, m, secs) ==
    StrftimeFields(yoe + era * 400 + (IF m <= 2 THEN 1 ELSE 0), m,
                   doy - (153 * mp + 2) \div 5 + 1, secs)

StrftimeDayOfYear(era, yoe, doy, mp, secs) ==
    StrftimeMonth(era, yoe, doy, mp, IF mp < 10 THEN mp + 3 ELSE mp - 9, secs)

StrftimeYearOfEra(era, doe, yoe, doy, secs) ==
    StrftimeDayOfYear(era, yoe, doy, (5 * doy + 2) \div 153, secs)

StrftimeDayOfEra(era, doe, yoe, secs) ==
    StrftimeYearOfEra(era, doe, yoe, doe - (365 * yoe + yoe \div 4 - yoe \div 100), secs)

StrftimeEra(era, doe, secs) ==
    StrftimeDayOfEra(era, doe,
        (doe - doe \div 1460 + doe \div 36524 - doe \div 146096) \div 365, secs)

StrftimeDays(z, secs) == StrftimeEra(z \div 146097, z - (z \div 146097) * 146097, secs)

Strftime(ts) == StrftimeDays(ts \div 86400 + 719468, ts % 86400)

\* str.strip() for the blanks the model's descriptions hold.
RECURSIVE LStrip(_)
LStrip(str) ==
    IF Len(str) > 0 /\ CharAt(str, 1) = " " THEN LStrip(SubSeq(str, 2, Len(str)))
    ELSE str

RECURSIVE RStrip(_)
RStrip(str) ==
    IF Len(str) > 0 /\ CharAt(str, Len(str)) = " "
    THEN RStrip(SubSeq(str, 1, Len(str) - 1))
    ELSE str

Strip(str) == RStrip(LStrip(str))

Abs(n) == IF n < 0 THEN -n ELSE n

(***************************************************************************)
(* metadata.py: the sidecar parser.                                        *)
(***************************************************************************)
GoogleMetadata ==
    [title |-> JNull, description |-> Nothing, photo_taken_time |-> Nothing,
     creation_time |-> Nothing, latitude |-> Nothing, longitude |-> Nothing,
     altitude |-> Nothing, favorited |-> FALSE]

has_gps(metadata) ==
    /\ metadata.latitude # Nothing
    /\ metadata.longitude # Nothing
    /\ (metadata.latitude[1] # 0 \/ metadata.longitude[1] # 0)

has_date(metadata) == metadata.photo_taken_time # Nothing

Parsed(md) == [kind |-> "ok", metadata |-> md, exc |-> ""]
ParseNone == [kind |-> "none", metadata |-> GoogleMetadata, exc |-> ""]
Raises(exc) == [kind |-> "raise", metadata |-> GoogleMetadata, exc |-> exc]

\* The timestamp block of parse_google_json for one of the two time objects:
\* Some(ts), Nothing when the field stays absent, or the exception raised.
ParseTime(obj) ==
    IF obj.t = "absent" THEN [exc |-> "", value |-> Nothing]
    ELSE IF obj.t = "null" THEN [exc |-> "TypeError", value |-> Nothing]
    ELSE IF obj.timestamp.t = "absent" THEN [exc |-> "", value |-> Nothing]
    ELSE IF obj.timestamp.t = "null" THEN [exc |-> "TypeError", value |-> Nothing]
    ELSE IF obj.timestamp.t = "huge" THEN [exc |-> "OverflowError", value |-> Nothing]
    ELSE IF obj.timestamp.t = "num" THEN [exc |-> "", value |-> Some(obj.timestamp.n)]
    ELSE IF IsDigitString(obj.timestamp.s)
    THEN [exc |-> "", value |-> Some(StrToInt(obj.timestamp.s))]
    ELSE [exc |-> "", value |-> Nothing]

\* The description block: Some(text), Nothing, or the exception raised.
ParseDescription(v) ==
    IF v.t \in { "absent", "null" } THEN [exc |-> "", value |-> Nothing]
    ELSE IF v.t = "str"
    THEN IF v.s # "" /\ Strip(v.s) # ""
         THEN [exc |-> "", value |-> Some(Strip(v.s))]
         ELSE [exc |-> "", value |-> Nothing]
    ELSE IF v.t = "num" /\ v.n = 0 THEN [exc |-> "", value |-> Nothing]
    ELSE [exc |-> "AttributeError", value |-> Nothing]

\* float(v) raises for a string that is no number and for a huge integer.
FloatRaises(v) ==
    IF v.t = "str" /\ ~IsDigitString(v.s) THEN "ValueError"
    ELSE IF v.t = "huge" THEN "OverflowError"
    ELSE ""

FloatOf(v) == IF v.t = "str" THEN StrToInt(v.s) * 100000 ELSE v.n

\* v != 0.0
NotZero(v) == ~(v.t = "num" /\ v.n = 0)

IsNone(v) == v.t \in { "absent", "null" }

\* The GPS block.
ParseGeo(geo) ==
    LET none == [exc |-> "", latitude |-> Nothing, longitude |-> Nothing,
                 altitude |-> Nothing]
        lat == geo.latitude
        lon == geo.longitude
        alt == geo.altitude
    IN  IF geo.t = "absent" THEN none
        ELSE IF geo.t = "null" THEN [none EXCEPT !.exc = "AttributeError"]
        ELSE IF IsNone(lat) \/ IsNone(lon) THEN none
        ELSE IF ~(NotZero(lat) \/ NotZero(lon)) THEN none
        ELSE IF FloatRaises(lat) # "" THEN [none EXCEPT !.exc = FloatRaises(lat)]
        ELSE IF FloatRaises(lon) # "" THEN [none EXCEPT !.exc = FloatRaises(lon)]
        ELSE IF ~IsNone(alt) /\ NotZero(alt)
        THEN IF FloatRaises(alt) # "" THEN [none EXCEPT !.exc = FloatRaises(alt)]
             ELSE [exc |-> "", latitude |-> Some(FloatOf(lat)),
                   longitude |-> Some(FloatOf(lon)), altitude |-> Some(FloatOf(alt))]
        ELSE [exc |-> "", latitude |-> Some(FloatOf(lat)),
              longitude |-> Some(FloatOf(lon)), altitude |-> Nothing]

\* parse_google_json on the content doc of a sidecar file.
parse_google_json(doc) ==
    IF doc.kind \in { "oserror", "malformed" } THEN ParseNone
    ELSE IF doc.kind = "badutf8" THEN Raises("UnicodeDecodeError")
    ELSE IF doc.kind = "array" THEN Raises("AttributeError")
    ELSE
      LET desc == ParseDescription(doc.description)
          photo == ParseTime(doc.photoTakenTime)
          creation == ParseTime(doc.creationTime)
          geo == ParseGeo(doc.geoData)
      IN  IF desc.exc # "" THEN Raises(desc.exc)
          ELSE IF photo.exc # "" THEN Raises(photo.exc)
          ELSE IF creation.exc # "" THEN Raises(creation.exc)
          ELSE IF geo.exc # "" THEN Raises(geo.exc)
          ELSE Parsed([title |-> doc.title,
                       description |-> desc.value,
                       photo_taken_time |-> photo.value,
                       creation_time |-> creation.value,
                       latitude |-> geo.latitude,
                       longitude |-> geo.longitude,
                       altitude |-> geo.altitude,
                       favorited |-> doc.favorited])

(***************************************************************************)
(* metadata.py: the tagging engine session, as the code uses it.           *)
(*                                                                         *)
(* The tags the engine reports for a file are a record of JSON values, one *)
(* per key verify_metadata looks up.  A write that succeeds overwrites the *)
(* keys of the field groups the file's format keeps.                       *)
(***************************************************************************)
NoTags ==
    [EXIF_DateTimeOriginal |-> JAbsent, DateTimeOriginal |-> JAbsent,
     EXIF_GPSLatitude |-> JAbsent, GPSLatitude |-> JAbsent,
     EXIF_GPSLongitude |-> JAbsent, GPSLongitude |-> JAbsent,
     EXIF_ImageDescription |-> JAbsent, ImageDescription |-> JAbsent,
     XMP_Description |-> JAbsent, IPTC_Caption_Abstract |-> JAbsent]

FieldGroups == { "date", "gps", "description" }

\* The parameters write_metadata_to_file builds, by field group; Nothing for a
\* group it leaves out.
BuildParams(metadata) ==
    [date |-> IF metadata.photo_taken_time # Nothing
              THEN Some(Strftime(metadata.photo_taken_time[1]))
              ELSE Nothing,
     gps |-> IF has_gps(metadata)
             THEN Some([GPSLatitude |-> metadata.latitude[1],
                        GPSLongitude |-> metadata.longitude[1],
                        GPSLatitudeRef |-> IF metadata.latitude[1] >= 0 THEN "N" ELSE "S",
                        GPSLongitudeRef |-> IF metadata.longitude[1] >= 0 THEN "E" ELSE "W"])
             ELSE Nothing,
     altitude |-> IF has_gps(metadata) /\ metadata.altitude # Nothing
                  THEN Some([GPSAltitude |-> Abs(metadata.altitude[1]),
                             GPSAltitudeRef |-> IF metadata.altitude[1] >= 0 THEN 0 ELSE 1])
                  ELSE Nothing,
     description |-> IF metadata.description # Nothing /\ metadata.description[1] # ""
                     THEN metadata.description
                     ELSE Nothing]

\* len(params)
ParamCount(params) ==
    (IF params.date # Nothing THEN 6 ELSE 0)
    + (IF params.gps # Nothing THEN 4 ELSE 0)
    + (IF params.altitude # Nothing THEN 2 ELSE 0)
    + (IF params.description # Nothing THEN 3 ELSE 0)

\* What et.set_tags leaves in a file whose format keeps the groups in kept:
\* the date under EXIF:DateTimeOriginal, the coordinates as magnitudes (the
\* sign goes to the reference letter), the description under its three keys.
EngineWrite(old, params, kept) ==
    LET withDate ==
            IF params.date # Nothing /\ "date" \in kept
            THEN [old EXCEPT !.EXIF_DateTimeOriginal = JStr(params.date[1])]
            ELSE old
        withGps ==
            IF params.gps # Nothing /\ "gps" \in kept
            THEN [withDate EXCEPT
                    !.EXIF_GPSLatitude = JNum(Abs(params.gps[1].GPSLatitude)),
                    !.EXIF_GPSLongitude = JNum(Abs(params.gps[1].GPSLongitude))]
            ELSE withDate
    IN  IF params.description # Nothing /\ "description" \in kept
        THEN [withGps EXCEPT
                !.EXIF_ImageDescription = JStr(params.description[1]),
                !.XMP_Description = JStr(params.description[1]),
                !.IPTC_Caption_Abstract = JStr(params.description[1])]
        ELSE withGps

RECURSIVE IntToStr(_)
IntToStr(n) ==
    IF n < 0 THEN "-" \o IntToStr(-n)
    ELSE IF n < 10 THEN Digits[n + 1]
    ELSE IntToStr(n \div 10) \o Digits[(n % 10) + 1]

\* The digits of a fraction of five places without its trailing zeros.
RECURSIVE TrimZeros(_)
TrimZeros(str) ==
    IF Len(str) > 1 /\ CharAt(str, Len(str)) = "0"
    THEN TrimZeros(SubSeq(str, 1, Len(str) - 1))
    ELSE str

\* str(x) of the float x degrees, x given in units of 0.00001 degree.
FloatStr(n) ==
    LET a == Abs(n)
        frac == a % 100000
    IN  (IF n < 0 THEN "-" ELSE "") \o IntToStr(a \div 100000) \o "."
        \o TrimZeros(Pad2(frac \div 1000) \o Pad2((frac \div 10) % 100) \o Digits[(frac % 10) + 1])

\* str(v) of a value the engine reports.
StrOf(v) ==
    IF v.t = "str" THEN v.s
    ELSE IF v.t = "num" THEN FloatStr(v.n)
    ELSE "None"

Truthy(v) ==
    IF v.t = "str" THEN v.s # ""
    ELSE IF v.t = "num" THEN v.n # 0
    ELSE FALSE

\* a or b
PyOr(a, b) == IF Truthy(a) THEN a ELSE b

\* dict.get gives None for a key that is absent.
IsPyNone(v) == v.t \in { "absent", "null" }

RECURSIVE Join(_, _)
Join(strs, sep) ==
    IF Len(strs) = 0 THEN ""
    ELSE IF Len(strs) = 1 THEN strs[1]
    ELSE strs[1] \o sep \o Join(Tail(strs), sep)

(***************************************************************************)
(* metadata.py: write_metadata_to_file, verify_metadata.                   *)
(***************************************************************************)
VerificationResult(success, date_match, gps_match, description_match, message) ==
    [success |-> success, date_match |-> date_match, gps_match |-> gps_match,
     description_match |-> description_match, message |-> message]

\* write_metadata_to_file handing the engine whatever was collected, be it
\* nothing.
WriteParams_always_calls(media_path, exists, params, set_ok) ==
    IF ~exists
    THEN [success |-> FALSE, message |-> "File not found: " \o PathStr(media_path),
          called |-> FALSE, params |-> params]
    ELSE IF set_ok
    THEN [success |-> TRUE,
          message |-> "Wrote " \o IntToStr(ParamCount(params)) \o " metadata fields",
          called |-> TRUE, params |-> params]
    ELSE [success |-> FALSE, message |-> "ExifTool error: set_tags failed",
          called |-> TRUE, params |-> params]

\* write_metadata_to_file: exists is media_path.exists(), set_ok whether
\* et.set_tags returns instead of raising.  called says whether set_tags was
\* called at all.
WriteParams(media_path, exists, params, set_ok) ==
    IF ~exists
    THEN [success |-> FALSE, message |-> "File not found: " \o PathStr(media_path),
          called |-> FALSE, params |-> params]
    ELSE IF ParamCount(params) = 0
    THEN [success |-> TRUE, message |-> "No metadata to write",
          called |-> FALSE, params |-> params]
    ELSE IF set_ok
    THEN [success |-> TRUE,
          message |-> "Wrote " \o IntToStr(ParamCount(params)) \o " metadata fields",
          called |-> TRUE, params |-> params]
    ELSE [success |-> FALSE, message |-> "ExifTool error: set_tags failed",
          called |-> TRUE, params |-> params]

write_metadata_to_file(media_path, exists, metadata, set_ok) ==
    WriteParams(media_path, exists, BuildParams(metadata), set_ok)

\* The coordinate tolerance of verify_metadata, 0.0001 degree, in units of
\* 0.00001 degree.
GpsTolerance == 10

\* verify_metadata: actual is what read_metadata_from_file returned, Nothing
\* for None.
verify_metadata(actual, expected) ==
    IF actual = Nothing
    THEN VerificationResult(FALSE, FALSE, FALSE, FALSE, "Could not read metadata from file")
    ELSE
      LET a == actual[1]
          expected_dt == Strftime(expected.photo_taken_time[1])
          actual_dt == PyOr(a.EXIF_DateTimeOriginal, a.DateTimeOriginal)
          actual_dt_clean == SubSeq(StrOf(actual_dt), 1, 19)
          date_match ==
              IF expected.photo_taken_time # Nothing
              THEN Truthy(actual_dt) /\ actual_dt_clean = expected_dt
              ELSE TRUE
          date_issues ==
              IF expected.photo_taken_time = Nothing THEN << >>
              ELSE IF ~Truthy(actual_dt) THEN << "DateTimeOriginal not found in file" >>
              ELSE IF actual_dt_clean # expected_dt
              THEN << "Date mismatch: expected " \o expected_dt \o ", got " \o actual_dt_clean >>
              ELSE << >>
          actual_lat == PyOr(a.EXIF_GPSLatitude, a.GPSLatitude)
          actual_lon == PyOr(a.EXIF_GPSLongitude, a.GPSLongitude)
          found == ~IsPyNone(actual_lat) /\ ~IsPyNone(actual_lon)
          parses == FloatRaises(actual_lat) = "" /\ FloatRaises(actual_lon) = ""
          lat_diff == Abs(FloatOf(actual_lat) - Abs(expected.latitude[1]))
          lon_diff == Abs(FloatOf(actual_lon) - Abs(expected.longitude[1]))
          gps_match ==
              IF has_gps(expected)
              THEN found /\ parses /\ lat_diff < GpsTolerance /\ lon_diff < GpsTolerance
              ELSE TRUE
          gps_issues ==
              IF ~has_gps(expected) THEN << >>
              ELSE IF ~found THEN << "GPS coordinates not found in file" >>
              ELSE IF ~parses THEN << "Could not parse GPS coordinates" >>
              ELSE IF ~gps_match
              THEN << "GPS mismatch: expected (" \o FloatStr(expected.latitude[1]) \o ", "
                      \o FloatStr(expected.longitude[1]) \o "), got ("
                      \o StrOf(actual_lat) \o ", " \o StrOf(actual_lon) \o ")" >>
              ELSE << >>
          has_desc == expected.description # Nothing /\ expected.description[1] # ""
          actual_desc ==
              PyOr(PyOr(PyOr(a.EXIF_ImageDescription, a.ImageDescription),
                        a.XMP_Description),
                   a.IPTC_Caption_Abstract)
          description_match ==
              IF has_desc
              THEN actual_desc.t = "str" /\ actual_desc.s = expected.description[1]
              ELSE TRUE
          desc_issues ==
              IF has_desc /\ ~description_match /\ Truthy(actual_desc)
              THEN << "Description mismatch" >>
              ELSE << >>
          issues == date_issues \o gps_issues \o desc_issues
      IN  VerificationResult(
              date_match /\ gps_match /\ description_match,
              date_match, gps_match, description_match,
              IF issues # << >> THEN Join(issues, "; ") ELSE "All metadata verified")

(***************************************************************************)
(* metadata.py: MetadataProcessor.process_file.                            *)
(***************************************************************************)
\* The issues process_file lists for a linked pair that failed verification.
LinkedIssues(img_date_ok, img_gps_ok, img_desc_ok, video_verification) ==
    (IF ~img_date_ok THEN << "image date" >> ELSE << >>)
    \o (IF ~img_gps_ok THEN << "image GPS" >> ELSE << >>)
    \o (IF ~img_desc_ok THEN << "image description" >> ELSE << >>)
    \o (IF ~video_verification.date_match THEN << "video date" >> ELSE << >>)
    \o (IF ~video_verification.gps_match THEN << "video GPS" >> ELSE << >>)
    \o (IF ~video_verification.description_match THEN << "video description" >> ELSE << >>)

\* CombineLinked reading the image-side flags after they were overwritten
\* with the combined ones.
CombineLinkedOverwritten(verification, video_verification) ==
    LET success == verification.success /\ video_verification.success
        date_match == verification.date_match /\ video_verification.date_match
        gps_match == verification.gps_match /\ video_verification.gps_match
        description_match ==
            verification.description_match /\ video_verification.description_match
    IN  VerificationResult(
            success, date_match, gps_match, description_match,
            IF ~success
            THEN "Verification failed on: "
                 \o Join(LinkedIssues(date_match, gps_match, description_match,
                                      video_verification), ", ")
            ELSE "All metadata verified (image and video)")

\* The combination of the image's and the video's verification results in
\* process_file.
CombineLinked(verification, video_verification) ==
    LET img_date_ok == verification.date_match
        img_gps_ok == verification.gps_match
        img_desc_ok == verification.description_match
        success == verification.success /\ video_verification.success
    IN  VerificationResult(
            success,
            verification.date_match /\ video_verification.date_match,
            verification.gps_match /\ video_verification.gps_match,
            verification.description_match /\ video_verification.description_match,
            IF ~success
            THEN "Verification failed on: "
                 \o Join(LinkedIssues(img_date_ok, img_gps_ok, img_desc_ok,
                                      video_verification), ", ")
            ELSE "All metadata verified (image and video)")

\* A read that reports a file without tags where the engine fails.
read_metadata_from_file_empty(path, fileTags, exists, get_ok) ==
    IF get_ok /\ path \in exists THEN Some(fileTags[path]) ELSE Some(NoTags)

\* read_metadata_from_file: None when the engine raises or reports nothing.
read_metadata_from_file(path, fileTags, exists, get_ok) ==
    IF get_ok /\ path \in exists THEN Some(fileTags[path]) ELSE Nothing

ProcessReturn(success, message, verification, fileTags, calls, sides) ==
    [kind |-> "return", exc |-> "", success |-> success, message |-> message,
     verification |-> verification, tags |-> fileTags, calls |-> calls,
     sides |-> sides]

\* The files' tags after a call of write_metadata_to_file on path.
TagsAfterWrite(fileTags, formats, path, w) ==
    IF w.called /\ w.success
    THEN [fileTags EXCEPT ![path] = EngineWrite(@, w.params, formats[path])]
    ELSE fileTags

CallsOf(op, path, made) == IF made THEN << << op, path >> >> ELSE << >>

\* process_file, after both sides were verified.
ProcessVerified(message, verification, sides, fileTags, calls) ==
    IF ~verification.success
    THEN ProcessReturn(FALSE, "Verification failed: " \o verification.message,
                       Some(verification), fileTags, calls, sides)
    ELSE ProcessReturn(TRUE, message, Some(verification), fileTags, calls, sides)

\* process_file, after the video of a linked pair was verified.
ProcessLinkedVerified(message, img, vid, fileTags, calls) ==
    ProcessVerified(message, CombineLinked(img, vid), << img, vid >>, fileTags, calls)

\* process_file, from "verification = None" on.
ProcessVerify(metadata, message, media_path, verify, video_path, fileTags, calls, exists, oracle, img) ==
    IF ~verify
    THEN ProcessReturn(TRUE, message, Nothing, fileTags, calls, << >>)
    ELSE IF video_path = Nothing
    THEN ProcessVerified(message, img, << img >>, fileTags,
                         calls \o << << "get_metadata", media_path >> >>)
    ELSE ProcessLinkedVerified(
             message, img,
             verify_metadata(
                 read_metadata_from_file(video_path[1], fileTags, exists,
                                         oracle.read_linked),
                 metadata),
             fileTags,
             calls \o << << "get_metadata", media_path >>,
                         << "get_metadata", video_path[1] >> >>)

\* process_file, after the writes succeeded.
ProcessWritten(metadata, message, media_path, verify, video_path, fileTags, calls, exists, oracle) ==
    ProcessVerify(metadata, message, media_path, verify, video_path, fileTags, calls,
                  exists, oracle,
                  verify_metadata(
                      read_metadata_from_file(media_path, fileTags, exists,
                                              oracle.read_primary),
                      metadata))

\* process_file going on to the read-back whatever the write to the video
\* came to.
ProcessLinkedWrite_goes_on(metadata, w1, w2, media_path, verify, video_path, fileTags, calls, formats, exists, oracle) ==
    ProcessWritten(metadata, w1.message \o "; Video: " \o w2.message, media_path,
                   verify, video_path,
                   TagsAfterWrite(fileTags, formats, video_path[1], w2),
                   calls \o CallsOf("set_tags", video_path[1], w2.called),
                   exists, oracle)

\* process_file, after the write to the video of a linked pair.
ProcessLinkedWrite(metadata, w1, w2, media_path, verify, video_path, fileTags, calls, formats, exists, oracle) ==
    IF ~w2.success
    THEN ProcessReturn(FALSE, "Image: " \o w1.message \o "; Video: " \o w2.message,
                       Nothing, TagsAfterWrite(fileTags, formats, video_path[1], w2),
                       calls \o CallsOf("set_tags", video_path[1], w2.called), << >>)
    ELSE ProcessWritten(metadata, w1.message \o "; Video: " \o w2.message, media_path,
                        verify, video_path,
                        TagsAfterWrite(fileTags, formats, video_path[1], w2),
                        calls \o CallsOf("set_tags", video_path[1], w2.called),
                        exists, oracle)

\* process_file, after the write to the main media file; fileTags and calls
\* are the tags and the engine calls after that write.
ProcessWrite(metadata, w1, media_path, verify, video_path, fileTags, calls, formats, exists, oracle) ==
    IF ~w1.success
    THEN ProcessReturn(FALSE, w1.message, Nothing, fileTags, calls, << >>)
    ELSE IF video_path = Nothing
    THEN ProcessWritten(metadata, w1.message, media_path, verify, video_path, fileTags,
                        calls, exists, oracle)
    ELSE ProcessLinkedWrite(
             metadata, w1,
             write_metadata_to_file(video_path[1], video_path[1] \in exists, metadata,
                                    oracle.write_linked),
             media_path, verify, video_path, fileTags, calls, formats, exists, oracle)

\* process_file, after the sidecar parsed to metadata.
ProcessMetadata(metadata, w1, media_path, verify, video_path, fileTags, formats, exists, oracle) ==
    ProcessWrite(metadata, w1, media_path, verify, video_path,
                 TagsAfterWrite(fileTags, formats, media_path, w1),
                 CallsOf("set_tags", media_path, w1.called), formats, exists, oracle)

\* process_file, after parse_google_json.
ProcessParsed(parsed, media_path, json_path, verify, video_path, fileTags, formats, exists, oracle) ==
    IF parsed.kind = "raise"
    THEN [kind |-> "raise", exc |-> parsed.exc, success |-> FALSE, message |-> "",
          verification |-> Nothing, tags |-> fileTags, calls |-> << >>,
          sides |-> << >>]
    ELSE IF parsed.kind = "none"
    THEN ProcessReturn(FALSE, "Failed to parse JSON: " \o PathStr(json_path),
                       Nothing, fileTags, << >>, << >>)
    ELSE ProcessMetadata(
             parsed.metadata,
             write_metadata_to_file(media_path, media_path \in exists, parsed.metadata,
                                    oracle.write_primary),
             media_path, verify, video_path, fileTags, formats, exists, oracle)

\* MetadataProcessor.process_file.  et_open: self._et is not None; doc: the
\* sidecar's content; video_path: Nothing or Some(path); fileTags, formats,
\* exists: the media files' tags, the field groups their formats keep and
\* the files on disk; oracle: whether each engine call of this run succeeds.
\* The result holds what is returned (or the exception), the files' tags
\* afterwards, the engine calls made in order, and the two sides' own
\* verification results.
process_file(et_open, media_path, json_path, doc, verify, video_path, fileTags, formats, exists, oracle) ==
    IF ~et_open
    THEN ProcessReturn(FALSE, "MetadataProcessor not initialized (use with statement)",
                       Nothing, fileTags, << >>, << >>)
    ELSE ProcessParsed(parse_google_json(doc), media_path, json_path, verify,
                       video_path, fileTags, formats, exists, oracle)

(***************************************************************************)
(* The files, sidecar contents and tags the commands are run on.           *)
(***************************************************************************)
Image == Path(RootDir, "a.jpg")
Video == Path(RootDir, "b.MP4")
ImageSidecar == Path(RootDir, "a.jpg.su.json")
ImageSidecarFull == Path(RootDir, "a.jpg.supplemental-metadata.json")
VideoSidecar == Path(RootDir, "b.MP4.SU.JSON")

MediaFiles == { Image, Video }
SidecarFiles == { ImageSidecar, ImageSidecarFull, VideoSidecar }

NoTime == [t |-> "absent", timestamp |-> JAbsent]
TimeObject(ts) == [t |-> "object", timestamp |-> ts]
NoGeo == [t |-> "absent", latitude |-> JAbsent, longitude |-> JAbsent,
          altitude |-> JAbsent]
GeoObject(lat, lon, alt) ==
    [t |-> "object", latitude |-> lat, longitude |-> lon, altitude |-> alt]

\* A sidecar holding the JSON object {}.
EmptyDoc ==
    [kind |-> "object", title |-> JAbsent, description |-> JAbsent,
     photoTakenTime |-> NoTime, creationTime |-> NoTime, geoData |-> NoGeo,
     favorited |-> FALSE]

\* A sidecar with every field: 2021-01-01T00:00:00Z at (37.7749, -122.4194).
FullDoc ==
    [EmptyDoc EXCEPT
        !.title = JStr("a.jpg"),
        !.description = JStr(" Beach "),
        !.photoTakenTime = TimeObject(JStr("1609459200")),
        !.creationTime = TimeObject(JStr("1609459201")),
        !.geoData = GeoObject(JNum(3777490), JNum(-12241940), JNum(0))]

\* A file that is no JSON.
MalformedDoc == [EmptyDoc EXCEPT !.kind = "malformed"]

\* {"photoTakenTime": {"timestamp": null}}
NullTimestampDoc == [EmptyDoc EXCEPT !.photoTakenTime = TimeObject(JNull)]

\* A sidecar with a date and a description but the (0, 0) location.
NoGpsDoc ==
    [FullDoc EXCEPT !.geoData = GeoObject(JNum(0), JNum(0), JNum(0))]

\* A sidecar of a place on the equator: latitude 0.0, longitude -122.4194.
EquatorDoc ==
    [EmptyDoc EXCEPT !.geoData = GeoObject(JNum(0), JNum(-12241940), JNum(0))]

DocSamples == { EmptyDoc, FullDoc, MalformedDoc, NullTimestampDoc, NoGpsDoc }

\* Tags of a file written by another tool: another date, a place elsewhere,
\* another description.
StaleTags ==
    [NoTags EXCEPT
        !.EXIF_DateTimeOriginal = JStr("2020:12:31 23:59:59+01:00"),
        !.EXIF_GPSLatitude = JNum(3780000),
        !.EXIF_GPSLongitude = JNum(12241940),
        !.XMP_Description = JStr("Old")]

TagSamples == { NoTags, StaleTags }

\* The field groups a format keeps: all, all but one, none.
KeepSamples ==
    { FieldGroups, {} } \cup { FieldGroups \ { g } : g \in FieldGroups }

NoCommand == [command |-> "", dry_run |-> FALSE, no_verify |-> FALSE, yes |-> FALSE]

\* ProcessingStats(total=total)
ProcessingStats(total) ==
    [total |-> total, successful |-> 0, failed |-> 0, skipped |-> 0, verified |-> 0,
     verification_failed |-> 0, failures |-> << >>, verification_failures |-> << >>]

\* deleted = 0, failed = 0, skipped = 0
NoCounts == [deleted |-> 0, failed |-> 0, skipped |-> 0]

NoCall == [verify |-> FALSE, video_path |-> Nothing, et_open |-> FALSE]

(***************************************************************************)
(* The names and trees the scanner is run on.                              *)
(***************************************************************************)
MediaNames == { "a.jpg", "b.MP4" }

RootNames ==
    MediaNames
    \cup { m \o ".supplemental-metadata.json" : m \in MediaNames }
    \cup { "a.jpg.su.json", "b.MP4.SU.JSON", ".su.json", "metadata.json",
           "Metadaten.json", "notes.txt" }

SubNames == { "a.jpg", "a.jpg.su.json" }

PathUniverse ==
    { Path(RootDir, n) : n \in RootNames }
    \cup { Path(SubDir, n) : n \in SubNames }
    \cup { SubDirEntry }

Listed == { listing[i] : i \in 1..Len(listing) }

NoName == [base |-> "", suffix |-> "", name |-> ""]

InitScan ==
    /\ dirKind \in { "dir", "missing", "notdir" }
    /\ listing = <<>>
    /\ recursive = FALSE
    /\ result = <<>>
    /\ nameIn = NoName
    /\ nameOut = NoResult
    /\ docs = [j \in SidecarFiles |-> EmptyDoc]
    /\ tags = [m \in MediaFiles |-> NoTags]
    /\ keeps = [m \in MediaFiles |-> FieldGroups]
    /\ call = NoCall
    /\ ret = <<>>
    /\ cmd = NoCommand
    /\ pc = "idle"
    /\ idx = 1
    /\ stats = ProcessingStats(0)
    /\ counts = NoCounts
    /\ session = "none"
    /\ exitCode = <<>>
    /\ raised = ""
    /\ unlinked = {}
    /\ checked = {}
    /\ opened = 0
    /\ engineCalls = {}
    /\ history = << >>

\* A file appears in the tree (the subdirectory first, for a file in it).
CreateEntry ==
    /\ dirKind = "dir"
    /\ result = <<>>
    /\ Len(listing) < MaxFiles
    /\ \E p \in PathUniverse \ Listed :
          /\ p.parent = SubDir => SubDirEntry \in Listed
          /\ listing' = Append(listing, p)
    /\ UNCHANGED <<dirKind, recursive, result, nameVars, envVars, callVars, runVars>>

Scan ==
    /\ result = <<>>
    /\ \E rec \in BOOLEAN :
       \E order \in SetOrders(MediaFilesOf(dirKind, listing, rec)) :
          /\ recursive' = rec
          /\ result' = <<scan_directory(dirKind, listing, rec, order)>>
    /\ UNCHANGED <<dirKind, listing, nameVars, envVars, callVars, runVars>>

NextScan == CreateEntry \/ Scan

(***************************************************************************)
(* Calls of the filename matcher on generated names.                       *)
(***************************************************************************)
NamePieces ==
    { "a", ".jpg", ".su.json", ".supplemental-met.json", "-metadata",
      ".json", "\n", ".SU" }

RECURSIVE NamesOf(_)
NamesOf(n) ==
    IF n = 0 THEN { "" }
    ELSE NamesOf(n - 1) \cup { x \o p : x \in NamesOf(n - 1), p \in NamePieces }

\* What is appended to a generated name: a suffix of the table, nothing, or a
\* suffix in another case.
NameSuffixes ==
    { JSON_PATTERNS[i] : i \in 1..Len(JSON_PATTERNS) } \cup { "", ".Su.Json" }

InitNames ==
    /\ \E base \in NamesOf(MaxParts), suffix \in NameSuffixes :
          nameIn = [base |-> base, suffix |-> suffix, name |-> base \o suffix]
    /\ nameOut = NoResult
    /\ dirKind = "missing"
    /\ listing = <<>>
    /\ recursive = FALSE
    /\ result = <<>>
    /\ docs = [j \in SidecarFiles |-> EmptyDoc]
    /\ tags = [m \in MediaFiles |-> NoTags]
    /\ keeps = [m \in MediaFiles |-> FieldGroups]
    /\ call = NoCall
    /\ ret = <<>>
    /\ cmd = NoCommand
    /\ pc = "idle"
    /\ idx = 1
    /\ stats = ProcessingStats(0)
    /\ counts = NoCounts
    /\ session = "none"
    /\ exitCode = <<>>
    /\ raised = ""
    /\ unlinked = {}
    /\ checked = {}
    /\ opened = 0
    /\ engineCalls = {}
    /\ history = << >>

Derive ==
    /\ nameOut = NoResult
    /\ nameOut' = get_media_filename_from_json(nameIn.name)
    /\ UNCHANGED <<nameIn, scanVars, envVars, callVars, runVars>>

SpecScan == InitScan /\ [][NextScan]_vars

SpecNames == InitNames /\ [][Derive]_vars

(***************************************************************************)
(* Calls of MetadataProcessor.process_file on the image a.jpg, its sidecar *)
(* and, for a live photo, the video b.MP4.                                 *)
(***************************************************************************)
Oracles ==
    [write_primary : BOOLEAN, write_linked : BOOLEAN,
     read_primary : BOOLEAN, read_linked : BOOLEAN]

\* The trees a call is made in: image, video and sidecar, or one of the two
\* media files gone since the scan.
CallTrees ==
    { << Image, ImageSidecar, Video >>, << Image, ImageSidecar >>,
      << ImageSidecar, Video >> }

InitProcess ==
    /\ dirKind = "dir"
    /\ listing \in CallTrees
    /\ recursive = FALSE
    /\ result = <<>>
    /\ nameIn = NoName
    /\ nameOut = NoResult
    /\ \E d \in DocSamples : docs = [j \in SidecarFiles |-> d]
    /\ \E t \in TagSamples : tags = [m \in MediaFiles |-> t]
    /\ keeps \in [MediaFiles -> KeepSamples]
    /\ call \in [verify : BOOLEAN, video_path : { Nothing, Some(Video) },
                 et_open : BOOLEAN]
    /\ ret = <<>>
    /\ cmd = NoCommand
    /\ pc = "idle"
    /\ idx = 1
    /\ stats = ProcessingStats(0)
    /\ counts = NoCounts
    /\ session = "none"
    /\ exitCode = <<>>
    /\ raised = ""
    /\ unlinked = {}
    /\ checked = {}
    /\ opened = 0
    /\ engineCalls = {}
    /\ history = << >>

ProcessFile ==
    /\ ret = <<>>
    /\ \E oracle \in Oracles :
          LET r == process_file(call.et_open, Image, ImageSidecar, docs[ImageSidecar],
                                call.verify, call.video_path, tags, keeps, Listed,
                                oracle)
          IN  /\ ret' = << r >>
              /\ tags' = r.tags
              /\ history' = << [oracle |-> oracle, tags |-> tags] >>
    /\ UNCHANGED <<scanVars, nameVars, docs, keeps, call, cmd, pc, idx, stats, counts,
                   session, exitCode, raised, unlinked, checked, opened, engineCalls>>

SpecProcess == InitProcess /\ [][ProcessFile]_vars

(***************************************************************************)
(* cli.py: main and the commands stats, attach and cleanup.                *)
(***************************************************************************)
MaxBatchFiles == 4     \* files the directory of a run holds at most

\* main's dispatch with attach sent to the cleanup handler.
Handler_attach_cleans(command) ==
    IF command = "stats" THEN "cmd_stats"
    ELSE IF command \in { "attach", "cleanup" } THEN "cmd_cleanup"
    ELSE "print_help"

\* The handler main calls for args.command.
Handler(command) ==
    IF command = "stats" THEN "cmd_stats"
    ELSE IF command = "attach" THEN "cmd_attach"
    ELSE IF command = "cleanup" THEN "cmd_cleanup"
    ELSE "print_help"

\* The loops' sequence with the orphan sidecars appended to the pairs.
LoopPairs_with_orphans(r) ==
    r.pairs \o [i \in 1..Len(r.orphan_jsons) |->
                   MediaFilePair(r.orphan_jsons[i], r.orphan_jsons[i])]

\* "for pair in result.pairs"
LoopPairs(r) == r.pairs

\* cmd_cleanup's branch on --no-verify taken whatever the flag says.
DeleteWithoutVerification_always(args) == TRUE

\* "if args.no_verify:" of cmd_cleanup's loops.
DeleteWithoutVerification(args) == args.no_verify

\* Whether reading obj.name finds an attribute; a MediaFilePair has the
\* fields of its dataclass.
HasAttr(obj, name) == name \in DOMAIN obj

\* What a command's code before its loop comes to: the exit code it returns
\* or the loop it enters, whether it scanned, and the engine session.
Returns(code, scanned) ==
    [pc |-> "done", exitCode |-> << code >>, scanned |-> scanned, session |-> "none"]

Enters(loop, engine) ==
    [pc |-> loop, exitCode |-> << >>, scanned |-> TRUE, session |-> engine]

\* cmd_stats.
cmd_stats(kind) ==
    IF kind = "missing" THEN Returns(1, FALSE) ELSE Returns(0, TRUE)

\* cmd_attach up to its loop.  available: what check_exiftool_available
\* says; answer: what the user answers when asked to confirm.
cmd_attach_begin(args, kind, r, available, answer) ==
    IF kind = "missing" THEN Returns(1, FALSE)
    ELSE IF ~available THEN Returns(1, FALSE)
    ELSE IF Len(r.pairs) = 0 THEN Returns(0, TRUE)
    ELSE IF args.dry_run THEN Returns(0, TRUE)
    ELSE IF ~args.yes /\ ~answer THEN Returns(0, TRUE)
    ELSE Enters("attach_loop", "open")

\* cmd_cleanup up to its loops.
cmd_cleanup_begin(args, kind, r, available, answer) ==
    IF kind = "missing" THEN Returns(1, FALSE)
    ELSE IF ~args.no_verify /\ ~available THEN Returns(1, FALSE)
    ELSE IF Len(r.pairs) = 0 THEN Returns(0, TRUE)
    ELSE IF ~args.yes /\ ~answer THEN Returns(0, TRUE)
    ELSE IF DeleteWithoutVerification(args) THEN Enters("cleanup_delete_loop", "none")
    ELSE Enters("cleanup_verify_loop", "open")

\* main up to the loop of the command it dispatches to.
main_begin(args, kind, r, available, answer) ==
    IF Handler(args.command) = "cmd_stats" THEN cmd_stats(kind)
    ELSE IF Handler(args.command) = "cmd_attach"
    THEN cmd_attach_begin(args, kind, r, available, answer)
    ELSE IF Handler(args.command) = "cmd_cleanup"
    THEN cmd_cleanup_begin(args, kind, r, available, answer)
    ELSE Returns(1, FALSE)

\* The command lines: stats, attach and cleanup with their flags.
CommandLines ==
    { [command |-> "stats", dry_run |-> FALSE, no_verify |-> FALSE, yes |-> FALSE] }
    \cup [command : { "attach" }, dry_run : BOOLEAN, no_verify : BOOLEAN, yes : BOOLEAN]
    \cup [command : { "cleanup" }, dry_run : { FALSE }, no_verify : BOOLEAN,
          yes : BOOLEAN]

\* The tags of a file that FullDoc's metadata was attached to.
AttachedTags ==
    EngineWrite(NoTags, BuildParams(parse_google_json(FullDoc).metadata), FieldGroups)

\* The sidecar contents of a run: one that parses, one that is no JSON, one
\* that makes the parser raise.  The sidecar with the full suffix parses.
BatchDocs == { FullDoc, MalformedDoc, NullTimestampDoc }

\* The files a run's directory is built from, in the order they are listed.
BatchFiles == << Image, ImageSidecar, ImageSidecarFull, Video, VideoSidecar >>

BatchTrees ==
    { SelectSeq(BatchFiles, LAMBDA f : f \in S) :
        S \in { T \in SUBSET { BatchFiles[i] : i \in 1..Len(BatchFiles) } :
                    Cardinality(T) <= MaxBatchFiles } }

Init ==
    /\ dirKind \in { "dir", "missing", "notdir" }
    /\ listing \in BatchTrees
    /\ dirKind # "dir" => listing = << >>
    /\ recursive = FALSE
    /\ result = <<>>
    /\ nameIn = NoName
    /\ nameOut = NoResult
    /\ docs \in [SidecarFiles -> BatchDocs]
    /\ docs[ImageSidecarFull] = FullDoc
    /\ tags \in [MediaFiles -> { NoTags, AttachedTags }]
    /\ dirKind # "dir" => docs[ImageSidecar] = FullDoc /\ docs[VideoSidecar] = FullDoc
    /\ dirKind # "dir" => tags = [m \in MediaFiles |-> NoTags]
    /\ keeps = [m \in MediaFiles |-> FieldGroups]
    /\ call = NoCall
    /\ ret = <<>>
    /\ cmd = NoCommand
    /\ pc = "idle"
    /\ idx = 1
    /\ stats = ProcessingStats(0)
    /\ counts = NoCounts
    /\ session = "none"
    /\ exitCode = <<>>
    /\ raised = ""
    /\ unlinked = {}
    /\ checked = {}
    /\ opened = 0
    /\ engineCalls = {}
    /\ history = << >>

\* main, from the command line to the loop of the command or to its return
\* before the loop.
Main ==
    /\ pc = "idle"
    /\ \E order \in SetOrders(MediaFilesOf(dirKind, listing, recursive)) :
       \E r \in { scan_directory(dirKind, listing, recursive, order) } :
       \E args \in CommandLines, available \in BOOLEAN, answer \in BOOLEAN :
       \E b \in { main_begin(args, dirKind, r, available, answer) } :
          /\ cmd' = args
          /\ result' = IF b.scanned THEN << r >> ELSE << >>
          /\ pc' = b.pc
          /\ exitCode' = b.exitCode
          /\ session' = b.session
          /\ opened' = IF b.session = "open" THEN opened + 1 ELSE opened
          /\ stats' = IF b.pc = "attach_loop" THEN ProcessingStats(Len(r.pairs))
                      ELSE stats
    /\ UNCHANGED <<dirKind, listing, recursive, nameVars, envVars, callVars, idx,
                   counts, raised, unlinked, checked, engineCalls, history>>

\* An __exit__ that leaves the session as it is.
Exit_leaves_open(engine) == engine

\* MetadataProcessor.__exit__: an open session is closed and the handle set
\* to None; a command that opened none has none.
Exit(engine) == IF engine = "open" THEN "closed" ELSE engine

\* An exception leaves the loop: MetadataProcessor.__exit__ closes the
\* session on the way out, and main's "except Exception" returns 1.
Abort(exc) ==
    /\ raised' = exc
    /\ session' = Exit(session)
    /\ pc' = "done"
    /\ exitCode' = << 1 >>

\* The commands' return that ignores the failures counted.
ExitCode_always_zero(failures) == 0

\* "return 1 if stats.failed > 0 else 0", "return 1 if failed > 0 else 0"
ExitCode(failures) == IF failures > 0 THEN 1 ELSE 0

\* The end of a loop body: the next pair, or after the last one the end of
\* the with block and the command's return, 1 if failures were counted.
Advance(r, failures) ==
    /\ idx' = idx + 1
    /\ raised' = raised
    /\ IF idx = Len(LoopPairs(r))
       THEN /\ session' = Exit(session)
            /\ pc' = "done"
            /\ exitCode' = << ExitCode(failures) >>
       ELSE UNCHANGED <<session, pc, exitCode>>

\* The engine calls a step made, each with the session's state at the call.
EngineCallsOf(calls) ==
    { [op |-> calls[i][1], path |-> calls[i][2], open |-> session = "open"] :
        i \in 1..Len(calls) }

\* cmd_attach's accounting of what process_file returned for pair.
AttachStats(st, pair, r) ==
    IF r.success
    THEN [st EXCEPT !.successful = @ + 1,
                    !.verified = IF r.verification # Nothing THEN @ + 1 ELSE @]
    ELSE IF r.verification # Nothing /\ ~r.verification[1].success
    THEN [st EXCEPT !.failed = @ + 1,
                    !.failures = Append(@, << pair.media_path, r.message >>),
                    !.verification_failed = @ + 1,
                    !.verification_failures =
                        Append(@, << pair.media_path, r.verification[1].message >>)]
    ELSE [st EXCEPT !.failed = @ + 1,
                    !.failures = Append(@, << pair.media_path, r.message >>)]

\* One pass of cmd_attach's loop body.  The arguments of process_file are
\* evaluated before the call: pair.video_path comes last.
AttachPair ==
    /\ pc = "attach_loop"
    /\ \E oracle \in Oracles :
       \E pair \in { LoopPairs(result[1])[idx] } :
          IF ~HasAttr(pair, "video_path")
          THEN /\ Abort("AttributeError")
               /\ UNCHANGED <<idx, stats, tags, engineCalls>>
          ELSE \E r \in { process_file(session = "open", pair.media_path,
                                       pair.json_path, docs[pair.json_path],
                                       ~cmd.no_verify, pair.video_path, tags, keeps,
                                       Listed, oracle) } :
                  /\ tags' = r.tags
                  /\ engineCalls' = engineCalls \cup EngineCallsOf(r.calls)
                  /\ IF r.kind = "raise"
                     THEN /\ Abort(r.exc)
                          /\ UNCHANGED <<idx, stats>>
                     ELSE \E st \in { AttachStats(stats, pair, r) } :
                             /\ stats' = st
                             /\ Advance(result[1], st.failed)
    /\ UNCHANGED <<scanVars, nameVars, docs, keeps, callVars, cmd, counts, unlinked,
                   checked, opened, history>>

\* path.unlink() on the tree.
Unlink(tree, path) == SelectSeq(tree, LAMBDA f : f # path)

\* "try: pair.json_path.unlink() ... except OSError" of cmd_cleanup; unlink_ok
\* says whether the OS lets the file go.
TryUnlink(path, unlink_ok) ==
    IF unlink_ok /\ path \in Listed
    THEN /\ listing' = Unlink(listing, path)
         /\ unlinked' = unlinked \cup { path }
         /\ counts' = [counts EXCEPT !.deleted = @ + 1]
    ELSE /\ counts' = [counts EXCEPT !.failed = @ + 1]
         /\ UNCHANGED <<listing, unlinked>>

\* One pass of cmd_cleanup's loop without verification.
CleanupDelete ==
    /\ pc = "cleanup_delete_loop"
    /\ \E unlink_ok \in BOOLEAN :
       \E pair \in { LoopPairs(result[1])[idx] } :
          /\ TryUnlink(pair.json_path, unlink_ok)
          /\ Advance(result[1], counts'.failed)
    /\ UNCHANGED <<dirKind, recursive, result, nameVars, envVars, callVars, cmd, stats,
                   checked, opened, engineCalls, history>>

\* cmd_cleanup's combination of the image's and the video's verification.
CleanupCombine(verification, video_verification) ==
    VerificationResult(
        verification.success /\ video_verification.success,
        verification.date_match /\ video_verification.date_match,
        verification.gps_match /\ video_verification.gps_match,
        verification.description_match /\ video_verification.description_match,
        IF ~(verification.success /\ video_verification.success)
        THEN "Verification failed on: "
             \o Join((IF ~(verification.date_match /\ video_verification.date_match)
                      THEN << "image or video date" >> ELSE << >>)
                     \o (IF ~(verification.gps_match /\ video_verification.gps_match)
                         THEN << "image or video GPS" >> ELSE << >>)
                     \o (IF ~(verification.description_match
                              /\ video_verification.description_match)
                         THEN << "image or video description" >> ELSE << >>),
                     ", ")
        ELSE verification.message)

\* The verification cmd_cleanup decides on for a pair whose video_path could
\* be read.
CleanupVerification(pair, metadata, verification, oracle) ==
    IF pair.video_path # Nothing
    THEN CleanupCombine(
             verification,
             verify_metadata(
                 read_metadata_from_file(pair.video_path[1], tags, Listed,
                                         oracle.read_linked),
                 metadata))
    ELSE verification

\* One pass of cmd_cleanup's loop with verification.
CleanupVerify ==
    /\ pc = "cleanup_verify_loop"
    /\ \E oracle \in Oracles, unlink_ok \in BOOLEAN :
       \E pair \in { LoopPairs(result[1])[idx] } :
       \E parsed \in { parse_google_json(docs[pair.json_path]) } :
          IF parsed.kind = "raise"
          THEN /\ Abort(parsed.exc)
               /\ UNCHANGED <<listing, idx, counts, unlinked, checked, engineCalls>>
          ELSE IF parsed.kind = "none"
          THEN /\ counts' = [counts EXCEPT !.skipped = @ + 1]
               /\ Advance(result[1], counts.failed)
               /\ UNCHANGED <<listing, unlinked, checked, engineCalls>>
          ELSE \E verification \in
                    { verify_metadata(
                          read_metadata_from_file(pair.media_path, tags, Listed,
                                                  oracle.read_primary),
                          parsed.metadata) } :
                  IF ~HasAttr(pair, "video_path")
                  THEN /\ Abort("AttributeError")
                       /\ engineCalls' = engineCalls \cup
                             EngineCallsOf(<< << "get_metadata", pair.media_path >> >>)
                       /\ checked' = IF verification.success
                                     THEN checked \cup { pair.json_path }
                                     ELSE checked
                       /\ UNCHANGED <<listing, idx, counts, unlinked>>
                  ELSE \E combined \in { CleanupVerification(pair, parsed.metadata,
                                                             verification, oracle) } :
                          /\ engineCalls' = engineCalls \cup
                                EngineCallsOf(
                                    << << "get_metadata", pair.media_path >> >>
                                    \o (IF pair.video_path # Nothing
                                        THEN << << "get_metadata", pair.video_path[1] >> >>
                                        ELSE << >>))
                          /\ IF combined.success
                             THEN /\ checked' = checked \cup { pair.json_path }
                                  /\ TryUnlink(pair.json_path, unlink_ok)
                                  /\ Advance(result[1], counts'.failed)
                             ELSE /\ counts' = [counts EXCEPT !.skipped = @ + 1]
                                  /\ Advance(result[1], counts.failed)
                                  /\ UNCHANGED <<listing, unlinked, checked>>
    /\ UNCHANGED <<dirKind, recursive, result, nameVars, envVars, callVars, cmd, stats,
                   opened, history>>

Next == Main \/ AttachPair \/ CleanupDelete \/ CleanupVerify

Spec == Init /\ [][Next]_vars

(***************************************************************************)
(* Commands run one after the other on the same directory.                 *)
(***************************************************************************)
MaxRuns == 2       \* runs of main on one directory at most

InitTwice ==
    /\ dirKind = "dir"
    /\ listing \in BatchTrees
    /\ recursive = FALSE
    /\ result = <<>>
    /\ nameIn = NoName
    /\ nameOut = NoResult
    /\ \E d \in BatchDocs : docs = [j \in SidecarFiles |-> d]
    /\ tags = [m \in MediaFiles |-> NoTags]
    /\ keeps = [m \in MediaFiles |-> FieldGroups]
    /\ call = NoCall
    /\ ret = <<>>
    /\ cmd = NoCommand
    /\ pc = "idle"
    /\ idx = 1
    /\ stats = ProcessingStats(0)
    /\ counts = NoCounts
    /\ session = "none"
    /\ exitCode = <<>>
    /\ raised = ""
    /\ unlinked = {}
    /\ checked = {}
    /\ opened = 0
    /\ engineCalls = {}
    /\ history = << >>

\* The process of a finished run is gone and main is started again on the
\* directory as the run left it.
Again ==
    /\ pc = "done"
    /\ Len(history) < MaxRuns - 1
    /\ history' = Append(history, [command |-> cmd.command, tags |-> tags,
                                   listing |-> listing, result |-> result,
                                   exitCode |-> exitCode])
    /\ cmd' = NoCommand
    /\ pc' = "idle"
    /\ idx' = 1
    /\ result' = <<>>
    /\ stats' = ProcessingStats(0)
    /\ counts' = NoCounts
    /\ session' = "none"
    /\ exitCode' = <<>>
    /\ raised' = ""
    /\ unlinked' = {}
    /\ checked' = {}
    /\ opened' = 0
    /\ engineCalls' = {}
    /\ UNCHANGED <<dirKind, listing, recursive, nameVars, envVars, callVars>>

NextTwice == Main \/ AttachPair \/ CleanupDelete \/ CleanupVerify \/ Again

SpecTwice == InitTwice /\ [][NextTwice]_vars

(***************************************************************************)
(* Calls of verify_metadata on a file whose tags were written by any tool. *)
(***************************************************************************)
\* What the engine may report for a coordinate: near the expected magnitude,
\* at the tolerance, far from it, with a sign, as text, zero, or not at all.
LatitudeReadings ==
    { JNum(3777485), JNum(3777500), JNum(3780000), JNum(-3777490), JStr("north"),
      JNum(0), JAbsent }

LongitudeReadings ==
    { JNum(12241945), JNum(-12241945), JNum(12241940), JNum(-12241940), JAbsent }

\* The sidecars verify_metadata gets an expectation from.
VerifyDocs == { EmptyDoc, FullDoc, NoGpsDoc, EquatorDoc }

InitVerify ==
    /\ dirKind = "dir"
    /\ listing = << Image, ImageSidecar >>
    /\ recursive = FALSE
    /\ result = <<>>
    /\ nameIn = NoName
    /\ nameOut = NoResult
    /\ \E d \in VerifyDocs : docs = [j \in SidecarFiles |-> d]
    /\ \E base \in { NoTags, AttachedTags, StaleTags } :
       \E lat \in LatitudeReadings, lon \in LongitudeReadings :
          tags = [m \in MediaFiles |->
                     [base EXCEPT !.EXIF_GPSLatitude = lat, !.EXIF_GPSLongitude = lon]]
    /\ keeps = [m \in MediaFiles |-> FieldGroups]
    /\ call = NoCall
    /\ ret = <<>>
    /\ cmd = NoCommand
    /\ pc = "idle"
    /\ idx = 1
    /\ stats = ProcessingStats(0)
    /\ counts = NoCounts
    /\ session = "none"
    /\ exitCode = <<>>
    /\ raised = ""
    /\ unlinked = {}
    /\ checked = {}
    /\ opened = 0
    /\ engineCalls = {}
    /\ history = << >>

\* verify_metadata(Image, expected, et) for the metadata the sidecar parses
\* to; get_ok says whether et.get_metadata returns.  ret takes get_ok and
\* the VerificationResult.
Verify ==
    /\ ret = <<>>
    /\ \E get_ok \in BOOLEAN :
          ret' = << [read |-> get_ok,
                     verification |->
                         verify_metadata(
                             read_metadata_from_file(Image, tags, Listed, get_ok),
                             parse_google_json(docs[ImageSidecar]).metadata)] >>
    /\ UNCHANGED <<scanVars, nameVars, envVars, call, runVars>>

SpecVerify == InitVerify /\ [][Verify]_vars

(***************************************************************************)
(* Properties of the scanner and the filename matcher.                     *)
(***************************************************************************)
Range(seq) == { seq[i] : i \in 1..Len(seq) }

NoDuplicates(seq) == \A i, j \in 1..Len(seq) : i # j => seq[i] # seq[j]

Count(seq, x) == Cardinality({ i \in 1..Len(seq) : seq[i] = x })

PairMedia(r) == [i \in 1..Len(r.pairs) |-> r.pairs[i].media_path]
PairJsons(r) == [i \in 1..Len(r.pairs) |-> r.pairs[i].json_path]

AllRecordedPaths(r) ==
    PairMedia(r) \o PairJsons(r) \o r.orphan_media \o r.orphan_jsons \o r.skipped_jsons

\* The regular files the scan looked at.
ScannedFiles == { e \in Range(Entries(listing, recursive)) : is_file(e) }

Scanned == result # <<>> /\ dirKind = "dir"

\* C5: in every scan result no path occurs twice in the union of the pairs'
\* media paths, the pairs' sidecar paths, orphan_media, orphan_jsons and
\* skipped_jsons.
C5_NoPathTwice ==
    result # <<>> => NoDuplicates(AllRecordedPaths(result[1]))

\* A scan that found a pair and an orphan media file beside it.
C5_Witness ==
    /\ Scanned
    /\ Len(result[1].pairs) = 1
    /\ Len(result[1].orphan_media) = 1

\* C6: every scanned file recognised as a sidecar is the json_path of exactly
\* one pair or an entry of orphan_jsons, and never both.
C6_SidecarRecordedOnce ==
    Scanned =>
      \A e \in ScannedFiles :
        is_metadata_json(e.name) =>
          LET asPair == Count(PairJsons(result[1]), e)
              asOrphan == Count(result[1].orphan_jsons, e)
          IN  \/ asPair = 1 /\ asOrphan = 0
              \/ asPair = 0 /\ asOrphan = 1

FullSuffix == ".supplemental-metadata.json"

\* C7: (m ranges over the files named a.jpg or b.MP4, whose extensions are
\* supported) over a directory holding exactly a media file m and its sidecar
\* m + ".supplemental-metadata.json" the scan yields exactly the pair (m,
\* sidecar) and no orphans; over m alone, no pair and the one orphan media m;
\* over the sidecar alone, no pair and the one orphan sidecar.
C7_PairingSymmetry ==
    Scanned =>
      \A m \in PathUniverse :
        m.name \in MediaNames =>
          LET sc == Path(m.parent, m.name \o FullSuffix)
              r == result[1]
          IN  /\ ScannedFiles = { m, sc } =>
                    /\ r.pairs = << MediaFilePair(m, sc) >>
                    /\ r.orphan_media = <<>>
                    /\ r.orphan_jsons = <<>>
              /\ ScannedFiles = { m } =>
                    /\ r.pairs = <<>>
                    /\ r.orphan_media = << m >>
                    /\ r.orphan_jsons = <<>>
              /\ ScannedFiles = { sc } =>
                    /\ r.pairs = <<>>
                    /\ r.orphan_media = <<>>
                    /\ r.orphan_jsons = << sc >>

\* The scan of a directory holding just b.MP4 and its full-suffix sidecar.
C7_Witness ==
    /\ Scanned
    /\ ScannedFiles = { Path(RootDir, "b.MP4"),
                        Path(RootDir, "b.MP4" \o FullSuffix) }
    /\ Len(result[1].pairs) = 1

\* Whether base ends in a pattern of the table shorter than suffix.
EndsInShorterPattern(base, suffix) ==
    \E i \in 1..Len(JSON_PATTERNS) :
        /\ Len(JSON_PATTERNS[i]) < Len(suffix)
        /\ EndsWith(Lower(base), JSON_PATTERNS[i])

\* C8: for each suffix of JSON_PATTERNS and every media name that does not
\* end in a shorter pattern of the table,
\* get_media_filename_from_json(name + suffix) is the media name.
C8_SuffixRoundTrip ==
    ( /\ nameOut # NoResult
      /\ nameIn.suffix \in Range(JSON_PATTERNS)
      /\ ~EndsInShorterPattern(nameIn.base, nameIn.suffix) )
    => nameOut = nameIn.base

\* The matcher has stripped the full suffix from a name that holds a shorter
\* pattern in its middle.
C8_Witness ==
    /\ nameIn.base = ".su.json.jpg"
    /\ nameIn.suffix = FullSuffix
    /\ nameOut = ".su.json.jpg"

AlbumMetadataNames == { "Metadaten.json", "metadata.json" }

\* C9: a file named 'Metadaten.json' or 'metadata.json' is never a sidecar for
\* is_metadata_json, and a scan puts it in skipped_jsons, once, and in no
\* pair, not in orphan_jsons and not in orphan_media.
C9_SkipListPrecedence ==
    /\ \A n \in AlbumMetadataNames : ~is_metadata_json(n)
    /\ Scanned =>
         \A e \in ScannedFiles :
           e.name \in AlbumMetadataNames =>
             LET r == result[1]
             IN  /\ Count(r.skipped_jsons, e) = 1
                 /\ e \notin Range(PairMedia(r)) \cup Range(PairJsons(r))
                 /\ e \notin Range(r.orphan_jsons) \cup Range(r.orphan_media)

\* A scan of a directory holding both album-metadata files beside a media file.
C9_Witness ==
    /\ Scanned
    /\ { e.name : e \in ScannedFiles } = AlbumMetadataNames \cup { "a.jpg" }
    /\ Len(result[1].skipped_jsons) = 2

(***************************************************************************)
(* Properties of process_file (SpecProcess).                               *)
(***************************************************************************)
\* sub in s
Contains(s, sub) ==
    \E i \in 1..(Len(s) - Len(sub) + 1) : SubSeq(s, i, i + Len(sub) - 1) = sub

\* The call under study was made with verify=true and a linked video, and
\* both of its files were verified.
LinkedVerified ==
    /\ ret # << >>
    /\ call.verify
    /\ call.video_path # Nothing
    /\ ret[1].kind = "return"
    /\ Len(ret[1].sides) = 2

VerifiedFields == { "date_match", "gps_match", "description_match" }

IssueName(field) ==
    CASE field = "date_match" -> "date"
      [] field = "gps_match" -> "GPS"
      [] field = "description_match" -> "description"

\* C10: process_file with verify=true and a linked video returns a
\* verification whose date_match, gps_match, description_match and success
\* are each the AND of the image's and the video's values; when success is
\* false the call fails and the message names "<side> <field>" for exactly
\* the (side, field) combinations whose flag is false.
C10_LinkedAndSemantics ==
    LinkedVerified =>
        /\ ret[1].verification # Nothing
        /\ \A f \in VerifiedFields \cup { "success" } :
              ret[1].verification[1][f] = (ret[1].sides[1][f] /\ ret[1].sides[2][f])
        /\ ~ret[1].verification[1].success =>
              /\ ~ret[1].success
              /\ ret[1].message = "Verification failed: " \o ret[1].verification[1].message
              /\ \A f \in VerifiedFields :
                    /\ Contains(ret[1].message, "image " \o IssueName(f))
                          <=> ~ret[1].sides[1][f]
                    /\ Contains(ret[1].message, "video " \o IssueName(f))
                          <=> ~ret[1].sides[2][f]

\* A linked pair whose image verified fully and whose video failed GPS only.
C10_Witness ==
    /\ LinkedVerified
    /\ ret[1].sides[1].success
    /\ ret[1].sides[2].date_match
    /\ ~ret[1].sides[2].gps_match
    /\ ret[1].sides[2].description_match
    /\ ~ret[1].success
    /\ Contains(ret[1].message, "video GPS")
    /\ ~Contains(ret[1].message, "image")

(***************************************************************************)
(* Properties of the commands (Spec).                                      *)
(***************************************************************************)
\* The sidecar files of a tree.
Sidecars(tree) == { f \in Range(tree) : is_metadata_json(f.name) }

\* The run's command got past its checks and into its loop.
EnteredLoop == pc \in { "attach_loop", "cleanup_delete_loop", "cleanup_verify_loop" }
               \/ (pc = "done" /\ (idx > 1 \/ raised # ""))

\* C1: in a cleanup run without --no-verify, every sidecar the run unlinked
\* was parsed and verified with success, on the media file and on the video
\* when there is one, earlier in that run: no sidecar whose verification
\* failed, could not be read or could not be parsed has been unlinked.
C1_CleanupDeletesOnlyVerified ==
    (cmd.command = "cleanup" /\ ~cmd.no_verify) => unlinked \subseteq checked

\* A verifying cleanup run that has handled a pair whose sidecar did not
\* parse and a pair whose verification failed; both sidecars are on disk.
C1_Witness ==
    /\ cmd.command = "cleanup"
    /\ ~cmd.no_verify
    /\ pc = "done"
    /\ idx = 2
    /\ counts.skipped = 1
    /\ raised = "AttributeError"
    /\ checked = {}
    /\ \A i \in 1..2 : result[1].pairs[i].json_path \in Listed

C3_AttachKeepsSidecars ==
    [][cmd'.command = "attach" => Sidecars(listing') = Sidecars(listing)]_vars

\* A finished attach run that entered its loop, with sidecars on disk.
C3_Witness ==
    /\ cmd.command = "attach"
    /\ pc = "done"
    /\ EnteredLoop
    /\ Sidecars(listing) # {}

\* C4: an attach run that entered its loop ends with every pair of
\* result.pairs processed, whatever failed or was raised on the way.
C4_AttachLoopReachesLastPair ==
    (cmd.command = "attach" /\ pc = "done" /\ EnteredLoop) =>
        idx = Len(result[1].pairs) + 1

(***************************************************************************)
(* Properties of verify_metadata (SpecVerify).                             *)
(***************************************************************************)
\* The metadata the call of verify_metadata expects.
Expected == parse_google_json(docs[ImageSidecar]).metadata

\* The file was read and reports both coordinates as numbers, and the
\* expected record has GPS.
GpsCompared ==
    /\ ret # << >>
    /\ ret[1].read
    /\ has_gps(Expected)
    /\ tags[Image].EXIF_GPSLatitude.t = "num"
    /\ tags[Image].EXIF_GPSLongitude.t = "num"

\* C11: when the expected record has GPS, gps_match says that the magnitudes
\* of the read-back and the expected coordinates differ by less than 0.0001
\* degree on both axes, whatever their signs: expected (37.7749, -122.4194)
\* matches a read-back of (37.77485, -122.41945) and not one of
\* (37.8, -122.4194).
C11_GpsToleranceOnMagnitudes ==
    GpsCompared =>
        ret[1].verification.gps_match =
            (/\ Abs(Abs(tags[Image].EXIF_GPSLatitude.n) - Abs(Expected.latitude[1])) < 10
             /\ Abs(Abs(tags[Image].EXIF_GPSLongitude.n) - Abs(Expected.longitude[1])) < 10)

(***************************************************************************)
(* Properties of repeated runs (SpecTwice).                                *)
(***************************************************************************)
\* Two scan results that hold the same pairs, orphans and skipped files;
\* orphan_media is compared as a set, its order being that of a Python set.
SameScan(r1, r2) ==
    /\ r1.pairs = r2.pairs
    /\ r1.orphan_jsons = r2.orphan_jsons
    /\ r1.skipped_jsons = r2.skipped_jsons
    /\ r1.errors = r2.errors
    /\ Range(r1.orphan_media) = Range(r2.orphan_media)

\* The second of two attach runs in sequence has returned.
AttachedTwice ==
    /\ Len(history) = 1
    /\ history[1].command = "attach"
    /\ cmd.command = "attach"
    /\ pc = "done"

LoopCompleted ==
    /\ pc = "done"
    /\ raised = ""
    /\ result # << >>
    /\ Len(result[1].pairs) > 0
    /\ idx = Len(result[1].pairs) + 1

\* C13: a command whose loop ran to completion returns 1 if it counted a
\* failure and 0 otherwise: attach counts the pairs process_file failed on,
\* cleanup the deletions that raised an OS error, not the pairs it skipped.
C13_ExitCodeIffFailed ==
    LoopCompleted =>
        /\ cmd.command = "attach" => exitCode = << IF stats.failed > 0 THEN 1 ELSE 0 >>
        /\ cmd.command = "cleanup" => exitCode = << IF counts.failed > 0 THEN 1 ELSE 0 >>

\* A cleanup that deleted one sidecar and failed to delete another.
C13_Witness ==
    /\ LoopCompleted
    /\ cmd.command = "cleanup"
    /\ counts.deleted = 1
    /\ counts.failed = 1
    /\ exitCode = << 1 >>

\* C14: a batch command opens the engine session at most once, every engine
\* call is made while the session is open, the session is open as long as a
\* loop that uses the engine runs, and once the command has returned, by
\* its return or by an exception, the session is closed.
C14_SessionScopedToLoop ==
    /\ opened <= 1
    /\ \A c \in engineCalls : c.open
    /\ pc \in { "attach_loop", "cleanup_verify_loop" } => session = "open" /\ opened = 1
    /\ pc = "cleanup_delete_loop" => session = "none" /\ opened = 0
    /\ pc = "done" => session = (IF opened = 1 THEN "closed" ELSE "none")

\* A verifying cleanup that read a file's tags and was ended by an exception.
C14_Witness ==
    /\ pc = "done"
    /\ raised # ""
    /\ opened = 1
    /\ session = "closed"
    /\ \E c \in engineCalls : c.op = "get_metadata" /\ c.open

\* C15: a cleanup run that entered its loop ends with every pair counted
\* once, as deleted, failed or skipped: the three counters add up to the
\* number of pairs.
C15_CleanupCountsEveryPair ==
    (cmd.command = "cleanup" /\ pc = "done" /\ EnteredLoop) =>
        counts.deleted + counts.failed + counts.skipped = Len(result[1].pairs)

(***************************************************************************)
(* Properties of process_file's steps (SpecProcess).  history[1] holds the *)
(* engine outcomes of the call and the files' tags before it.              *)
(***************************************************************************)
\* process_file was called on a processor whose session is open.
Called == ret # << >> /\ call.et_open

\* What the parser made of the call's sidecar.
CallParsed == parse_google_json(docs[ImageSidecar])

\* The outcome of the call's write to path.
CallWrite(path, set_ok) ==
    write_metadata_to_file(path, path \in Listed, CallParsed.metadata, set_ok)

PrimaryWrite == CallWrite(Image, history[1].oracle.write_primary)
LinkedWrite == CallWrite(Video, history[1].oracle.write_linked)

Linked == call.video_path # Nothing

\* Both writes of the call were reached and succeeded.
WritesSucceeded ==
    /\ CallParsed.kind = "ok"
    /\ PrimaryWrite.success
    /\ Linked => LinkedWrite.success

\* The engine could not read path back.
ReadFailed(path, get_ok) == read_metadata_from_file(path, tags, Listed, get_ok) = Nothing

\* The position of an engine call in the order of the steps.
StepRank(c) ==
    IF c = << "set_tags", Image >> THEN 1
    ELSE IF c = << "set_tags", Video >> THEN 2
    ELSE IF c = << "get_metadata", Image >> THEN 3
    ELSE IF c = << "get_metadata", Video >> THEN 4
    ELSE 0

\* The ranks of the engine calls the call of process_file issued.
IssuedRanks == { StepRank(ret[1].calls[i]) : i \in 1..Len(ret[1].calls) }

\* The engine calls were issued in the order of the steps, each at most once,
\* the linked ones only with a linked path and the reads only with verify.
StepsInOrder ==
    /\ \A i, j \in 1..Len(ret[1].calls) :
          i < j => 0 < StepRank(ret[1].calls[i])
                   /\ StepRank(ret[1].calls[i]) < StepRank(ret[1].calls[j])
    /\ ~Linked => IssuedRanks \subseteq { 1, 3 }
    /\ ~call.verify => IssuedRanks \subseteq { 1, 2 }

\* A parse or write failure ends the call with success=false, no outcome
\* and no engine call of a later step.
WriteStepsShortCircuit ==
    /\ CallParsed.kind = "raise" => ret[1].kind = "raise" /\ IssuedRanks = {}
    /\ CallParsed.kind = "none" =>
          /\ ~ret[1].success /\ ret[1].verification = Nothing
          /\ IssuedRanks = {}
    /\ (CallParsed.kind = "ok" /\ ~PrimaryWrite.success) =>
          /\ ~ret[1].success /\ ret[1].verification = Nothing
          /\ IssuedRanks \subseteq { 1 }
    /\ (CallParsed.kind = "ok" /\ PrimaryWrite.success /\ Linked /\ ~LinkedWrite.success) =>
          /\ ~ret[1].success /\ ret[1].verification = Nothing
          /\ IssuedRanks \subseteq { 1, 2 }

\* A failed read of the primary file ends the call with success=false and
\* without the read of the linked file.
ReadStepShortCircuits ==
    (WritesSucceeded /\ call.verify /\ ReadFailed(Image, history[1].oracle.read_primary)) =>
        /\ ~ret[1].success
        /\ 4 \notin IssuedRanks

\* success=true is returned only when every step the call executed succeeded.
SuccessMeansAllSteps ==
    (ret[1].kind = "return" /\ ret[1].success) =>
        /\ WritesSucceeded
        /\ call.verify =>
              /\ ret[1].verification # Nothing
              /\ ret[1].verification[1].success
              /\ ~ReadFailed(Image, history[1].oracle.read_primary)
              /\ Linked => ~ReadFailed(Video, history[1].oracle.read_linked)
        /\ ~call.verify => ret[1].verification = Nothing

\* C16: process_file issues its engine calls in the order write primary,
\* write linked, read primary, read linked; a step that fails ends the call
\* with success=false and no engine call of a later step; success=true
\* means every executed step succeeded.
C16_StepsShortCircuit ==
    Called =>
        /\ StepsInOrder
        /\ WriteStepsShortCircuit
        /\ ReadStepShortCircuits
        /\ SuccessMeansAllSteps

\* What holds of the steps: everything but the short circuit of the reads.
StepsButReads ==
    Called => StepsInOrder /\ WriteStepsShortCircuit /\ SuccessMeansAllSteps

\* The tags of path after the engine wrote the call's metadata to the tags
\* it had before the call.
Written(path) == EngineWrite(history[1].tags[path], BuildParams(CallParsed.metadata), keeps[path])

\* The primary write of a linked pair succeeded and the linked write failed.
LinkedWriteFailed ==
    /\ Called
    /\ Linked
    /\ CallParsed.kind = "ok"
    /\ PrimaryWrite.success
    /\ ~LinkedWrite.success

\* C17: when the primary write of a linked pair succeeds and the linked
\* write fails, process_file returns success=false with no verification
\* outcome and reads nothing back, the primary file keeps what was written
\* to it and the linked file what it had; a linked write that succeeds
\* writes the fields of the same parsed record as the primary write.
C17_LinkedWriteFailure ==
    /\ LinkedWriteFailed =>
          /\ ret[1].kind = "return"
          /\ ~ret[1].success
          /\ ret[1].verification = Nothing
          /\ IssuedRanks \cap { 3, 4 } = {}
          /\ tags[Image] = (IF PrimaryWrite.called THEN Written(Image)
                            ELSE history[1].tags[Image])
          /\ tags[Video] = history[1].tags[Video]
    /\ (Called /\ Linked /\ WritesSucceeded /\ LinkedWrite.called) =>
          /\ PrimaryWrite.called
          /\ tags[Image] = Written(Image)
          /\ tags[Video] = Written(Video)

\* The engine refused the write to the video after fields were written to
\* the image.
C17_Witness ==
    /\ LinkedWriteFailed
    /\ PrimaryWrite.called
    /\ LinkedWrite.called
    /\ tags[Image] # history[1].tags[Image]
    /\ ~ret[1].success

\* The message of a verification whose file could not be read.
CouldNotRead == "Could not read metadata from file"

\* The call of process_file got to its verification.
Verifying == Called /\ WritesSucceeded /\ call.verify

\* The engine fails on the read of path or reports nothing for it.
Unreadable(path, get_ok) == ~get_ok \/ path \notin Listed

PrimaryUnreadable == Unreadable(Image, history[1].oracle.read_primary)
LinkedUnreadable == Linked /\ Unreadable(Video, history[1].oracle.read_linked)

\* The verification of one side failed with the message of a failed read
\* exactly when the side's file could not be read.
ReadFailureReported(side, unreadable) ==
    /\ unreadable => ~side.success /\ side.message = CouldNotRead
    /\ ~unreadable => side.message # CouldNotRead

C19_ParserNeverRaises ==
    Called =>
        /\ ret[1].kind = "return"
        /\ docs[ImageSidecar].kind = "malformed" => CallParsed.kind = "none"
        /\ docs[ImageSidecar].kind = "object" => CallParsed.kind = "ok"

\* The sidecar parsed to a record without date, coordinates and description.
EmptyRecord ==
    /\ CallParsed.kind = "ok"
    /\ CallParsed.metadata.photo_taken_time = Nothing
    /\ ~has_gps(CallParsed.metadata)
    /\ CallParsed.metadata.description = Nothing

\* The verification of a side that was read found every field matched.
AllMatched(side) ==
    side.message # CouldNotRead =>
        side.success /\ side.date_match /\ side.gps_match /\ side.description_match

\* C20: for an empty record process_file issues no engine write and leaves
\* every file's tags as they were, a verification that read the file finds
\* every field matched whatever the file holds, and on existing files that
\* can be read process_file returns success=true.
C20_EmptyRecordWritesNothing ==
    (Called /\ EmptyRecord /\ Image \in Listed) =>
        /\ IssuedRanks \cap { 1, 2 } = {}
        /\ tags = history[1].tags
        /\ \A i \in 1..Len(ret[1].sides) : AllMatched(ret[1].sides[i])
        /\ ((Linked => Video \in Listed)
            /\ (call.verify => ~PrimaryUnreadable /\ ~LinkedUnreadable)) =>
              /\ ret[1].kind = "return"
              /\ ret[1].success
              /\ call.verify => ret[1].verification[1].success

\* An empty record verified against a file that holds another tool's tags.
C20_Witness ==
    /\ Called
    /\ EmptyRecord
    /\ call.verify
    /\ history[1].tags[Image] = StaleTags
    /\ ret[1].success
    /\ ret[1].verification[1].success
    /\ ret[1].calls = << << "get_metadata", Image >> >>
    /\ tags[Image] = StaleTags

\* The message of a verification that found nothing wrong.
AllVerified == "All metadata verified"

\* C21: a result of verify_metadata says "All metadata verified" exactly
\* when its success is true: a failed verification names a cause.
C21_MessageNamesCause ==
    Called =>
        \A i \in 1..Len(ret[1].sides) :
            ret[1].sides[i].success <=> ret[1].sides[i].message = AllVerified

\* What holds of the message: a successful verification carries it.
SuccessSaysAllVerified ==
    Called =>
        \A i \in 1..Len(ret[1].sides) :
            ret[1].sides[i].success => ret[1].sides[i].message = AllVerified

(***************************************************************************)
(* Properties of cmd_attach's accounting (Spec).                           *)
(***************************************************************************)
\* The pairs the attach loop has taken up: all of them once the run is over
\* without the loop having been left early, else those up to the current one.
PairsTaken == IF pc = "done" /\ raised # "" THEN idx ELSE idx - 1

\* C22: in an attach run every pair the loop has taken up is counted once,
\* as successful or as failed, the verification counters stay below them,
\* the failure lists are as long as their counters, and a run that is over
\* has counted all of its pairs.
C22_AttachStatsAccount ==
    (cmd.command = "attach" /\ EnteredLoop) =>
        /\ stats.successful + stats.failed = PairsTaken
        /\ stats.verified <= stats.successful
        /\ stats.verification_failed <= stats.failed
        /\ Len(stats.failures) = stats.failed
        /\ Len(stats.verification_failures) = stats.verification_failed
        /\ pc = "done" => stats.successful + stats.failed = stats.total

(***************************************************************************)
(* Properties of verify_metadata on a zero coordinate (SpecVerify).        *)
(***************************************************************************)
\* The expected record has GPS with a coordinate that is 0, and the file
\* that was read reports exactly the magnitudes of the expected coordinates.
ZeroCoordinateEchoed ==
    /\ GpsCompared
    /\ Expected.latitude[1] = 0 \/ Expected.longitude[1] = 0
    /\ tags[Image].EXIF_GPSLatitude.n = Abs(Expected.latitude[1])
    /\ tags[Image].EXIF_GPSLongitude.n = Abs(Expected.longitude[1])

\* C23: an expected position with one coordinate equal to 0 verifies
\* against a file that reports exactly its magnitudes: gps_match is true
\* and the coordinates are not reported as missing.
C23_ZeroCoordinateIsPresent ==
    ZeroCoordinateEchoed =>
        /\ ret[1].verification.gps_match
        /\ ret[1].verification.message # "GPS coordinates not found in file"

====
